---------------------------- MODULE Spec2Model ----------------------------
(* A model of the uinames client (package uinames, client.go).            *)
(*                                                                        *)
(* Spec     : NewRequest, one step per option of the variadic argument,   *)
(*            then the encoding of the query and the descriptor.          *)
(* SpecGet  : Request.get, one step per statement that touches the        *)
(*            response: the exchange, the nil check, ReadAll, the         *)
(*            deferred Close, and the three decoders.                     *)
(*                                                                        *)
(* Go strings that the code inspects byte by byte or that a conversion    *)
(* produces are sequences of one-character strings; strings the code only *)
(* carries and concatenates (error messages, the status line) are TLA+    *)
(* strings.                                                               *)
EXTENDS Integers, Sequences, FiniteSets, TLC

VARIABLES
  opts,     \* NewRequest: the options passed (opts ...Opt)
  idx,      \* NewRequest: position of the range loop over opts
  v,        \* NewRequest: the url.Values being accumulated
  invoked,  \* NewRequest: how many options have been called
  req,      \* NewRequest: the *Request returned (NilRequest when none)
  nrErr,    \* NewRequest: the error returned
  pc,       \* NewRequest: "loop", "done"
  r,        \* get: the receiver, a request descriptor
  rt,       \* get: what the transport will answer to Do
  hr,       \* get: the *http.Response held by get
  body,     \* get: the []byte returned by getResponseEntityBody
  rl,       \* get: the []Response returned
  err,      \* get: the error returned
  closes,   \* get: number of calls of resp.Body.Close
  reads,    \* get: number of reads of resp.Body
  lateRead, \* get: a read of resp.Body happened after Close
  decoded,  \* get: number of calls of json.Unmarshal
  exchanges,\* number of calls of (cl).Do
  gpc       \* get: "do", "status", "body", "read", "close", "decode", "done", "idle"

nrVars  == <<opts, idx, v, invoked, req, nrErr, pc>>
getVars == <<r, rt, hr, body, rl, err, closes, reads, lateRead, decoded, gpc>>
vars    == <<opts, idx, v, invoked, req, nrErr, pc,
             r, rt, hr, body, rl, err, closes, reads, lateRead, decoded,
             exchanges, gpc>>

-----------------------------------------------------------------------------
(* Bounds of the model.                                                   *)

MaxOpts == 3          \* longest free sequence of options tried
MaxBody == 4          \* longest free response body tried, in tokens
ProbeBelow == 3       \* Amount is probed from -ProbeBelow ...
ProbeAbove == 503     \* ... to ProbeAbove

-----------------------------------------------------------------------------
(* Bytes.                                                                 *)

Lower == <<"a","b","c","d","e","f","g","h","i","j","k","l","m",
           "n","o","p","q","r","s","t","u","v","w","x","y","z">>
Upper == <<"A","B","C","D","E","F","G","H","I","J","K","L","M",
           "N","O","P","Q","R","S","T","U","V","W","X","Y","Z">>
DigitChars == <<"0","1","2","3","4","5","6","7","8","9">>
HexChars == <<"0","1","2","3","4","5","6","7","8","9","A","B","C","D","E","F">>

IsLower(c) == \E k \in 1..26 : Lower[k] = c
IsUpper(c) == \E k \in 1..26 : Upper[k] = c
IsDigit(c) == \E k \in 1..10 : DigitChars[k] = c

\* The byte value of a character (ASCII), for the characters the model uses.
Ascii(c) ==
  IF IsLower(c) THEN 96 + (CHOOSE k \in 1..26 : Lower[k] = c)
  ELSE IF IsUpper(c) THEN 64 + (CHOOSE k \in 1..26 : Upper[k] = c)
  ELSE IF IsDigit(c) THEN 47 + (CHOOSE k \in 1..10 : DigitChars[k] = c)
  ELSE CASE c = " " -> 32
         [] c = "%" -> 37
         [] c = "&" -> 38
         [] c = "+" -> 43
         [] c = "-" -> 45
         [] c = "." -> 46
         [] c = "/" -> 47
         [] c = ":" -> 58
         [] c = "=" -> 61
         [] c = "?" -> 63
         [] c = "_" -> 95
         [] c = "~" -> 126

\* Go's string comparison a < b: bytewise, a proper prefix is smaller.
RECURSIVE StrLess(_, _)
StrLess(a, b) ==
  IF b = <<>> THEN FALSE
  ELSE IF a = <<>> THEN TRUE
  ELSE IF Ascii(Head(a)) # Ascii(Head(b)) THEN Ascii(Head(a)) < Ascii(Head(b))
  ELSE StrLess(Tail(a), Tail(b))

-----------------------------------------------------------------------------
(* Constants of client.go.                                                *)

URL == <<"h","t","t","p","s",":","/","/","u","i","n","a","m","e","s",
         ".","c","o","m","/","a","p","i","/">>
amountErrorMsg == "amount must be between 1 and 500 (inclusive)"
nilResponseBodyErrorMsg == "found nil HTTP response entity body"

amountKey    == <<"a","m","o","u","n","t">>
extraDataKey == <<"e","x","t">>
genderKey    == <<"g","e","n","d","e","r">>
regionKey    == <<"r","e","g","i","o","n">>
maxLenKey    == <<"m","a","x","l","e","n">>
minLenKey    == <<"m","i","n","l","e","n">>

Female == <<"f","e","m","a","l","e">>
Male   == <<"m","a","l","e">>

\* The message of the failing option of the tests.
errorOptMsg == "I can't work like this"

\* Errors: nil, an errors.New value, or a typed value.
NilErr == [type |-> "nil"]
ErrorsNew(msg) == [type |-> "errorString", msg |-> msg]

-----------------------------------------------------------------------------
(* fmt.Sprintf("%v", i) for an int: the decimal digits, "-" in front of a *)
(* negative number.                                                       *)

RECURSIVE FmtNat(_)
FmtNat(n) ==
  IF n < 10 THEN <<DigitChars[n + 1]>>
  ELSE FmtNat(n \div 10) \o <<DigitChars[(n % 10) + 1]>>

Sprintf(i) == IF i < 0 THEN <<"-">> \o FmtNat(0 - i) ELSE FmtNat(i)

-----------------------------------------------------------------------------
(* url.Values: a map from key to the list of its values.                  *)

EmptyValues == [k \in {} |-> <<>>]

\* Values.Set: the key's list is replaced by the one value.
ValuesSet(vals, k, val) ==
  [x \in (DOMAIN vals) \cup {k} |-> IF x = k THEN <<val>> ELSE vals[x]]

\* The result of calling an Opt on *url.Values: the values after the call
\* and the error returned.
OptResult(vals, e) == [v |-> vals, err |-> e]

intOpt(k, i, vals) == OptResult(ValuesSet(vals, k, Sprintf(i)), NilErr)

\* Amount with the upper limit off by one.
AmountOffByOne(amount, vals) ==
  IF amount < 1 \/ amount >= 500
    THEN OptResult(vals, ErrorsNew(amountErrorMsg))
    ELSE OptResult(ValuesSet(vals, amountKey, Sprintf(amount)), NilErr)

Amount(amount, vals) ==
  IF amount < 1 \/ amount > 500
    THEN OptResult(vals, ErrorsNew(amountErrorMsg))
    ELSE OptResult(ValuesSet(vals, amountKey, Sprintf(amount)), NilErr)

ExtraData(vals) == OptResult(ValuesSet(vals, extraDataKey, <<>>), NilErr)

Gender(gender, vals) == OptResult(ValuesSet(vals, genderKey, gender), NilErr)

MaximumLength(max, vals) == intOpt(maxLenKey, max, vals)

MinimumLength(min, vals) == intOpt(minLenKey, min, vals)

Region(region, vals) == OptResult(ValuesSet(vals, regionKey, region), NilErr)

\* The option of the tests that fails whatever the values are.
errorOpt(vals) == OptResult(vals, ErrorsNew(errorOptMsg))

\* An Opt value is a closure: the function it was made by and the argument
\* it captured.
Opt(name, arg) == [name |-> name, arg |-> arg]

\* Calling the closure: Opt(&v).
CallOpt(o, vals) ==
  CASE o.name = "Amount"        -> Amount(o.arg, vals)
    [] o.name = "ExtraData"     -> ExtraData(vals)
    [] o.name = "Gender"        -> Gender(o.arg, vals)
    [] o.name = "MaximumLength" -> MaximumLength(o.arg, vals)
    [] o.name = "MinimumLength" -> MinimumLength(o.arg, vals)
    [] o.name = "Region"        -> Region(o.arg, vals)
    [] o.name = "errorOpt"      -> errorOpt(vals)

-----------------------------------------------------------------------------
(* url.QueryEscape and Values.Encode.                                     *)

\* shouldEscape in query-component mode: letters, digits and - _ . ~ stay.
Unreserved(c) ==
  IsLower(c) \/ IsUpper(c) \/ IsDigit(c) \/ c \in {"-", "_", ".", "~"}

EscapeByte(c) ==
  IF Unreserved(c) THEN <<c>>
  ELSE IF c = " " THEN <<"+">>
  ELSE <<"%", HexChars[(Ascii(c) \div 16) + 1], HexChars[(Ascii(c) % 16) + 1]>>

RECURSIVE QueryEscape(_)
QueryEscape(s) ==
  IF s = <<>> THEN <<>> ELSE EscapeByte(Head(s)) \o QueryEscape(Tail(s))

\* sort.Strings over the keys of the map.
RECURSIVE SortedKeys(_)
SortedKeys(ks) ==
  IF ks = {} THEN <<>>
  ELSE LET m == CHOOSE a \in ks : \A b \in ks \ {a} : StrLess(a, b)
       IN  <<m>> \o SortedKeys(ks \ {m})

\* The inner loop of Encode: the pairs of one key, appended to buf.
RECURSIVE EncodeKey(_, _, _)
EncodeKey(buf, keyEscaped, vs) ==
  IF vs = <<>> THEN buf
  ELSE EncodeKey((IF buf = <<>> THEN <<>> ELSE buf \o <<"&">>)
                   \o keyEscaped \o <<"=">> \o QueryEscape(Head(vs)),
                 keyEscaped, Tail(vs))

RECURSIVE EncodeKeys(_, _, _)
EncodeKeys(buf, keys, vals) ==
  IF keys = <<>> THEN buf
  ELSE EncodeKeys(EncodeKey(buf, QueryEscape(Head(keys)), vals[Head(keys)]),
                  Tail(keys), vals)

\* Encode with the keys taken from the largest to the smallest.
EncodeReversed(vals) ==
  LET ks == SortedKeys(DOMAIN vals)
  IN  EncodeKeys(<<>>, [k \in 1..Len(ks) |-> ks[Len(ks) + 1 - k]], vals)

Encode(vals) == EncodeKeys(<<>>, SortedKeys(DOMAIN vals), vals)

\* URL.String() of the parsed base URL with RawQuery set: "?" and the query
\* are written only when the query is not empty.
URLString(rawQuery) ==
  IF rawQuery = <<>> THEN URL ELSE URL \o <<"?">> \o rawQuery

\* The descriptor NewRequest returns; NilRequest when it returns nil.
NilRequest == [Method |-> "", URL |-> <<>>]
NewHTTPRequest(method, urlStr) == [Method |-> method, URL |-> urlStr]

-----------------------------------------------------------------------------
(* JSON as the decoder sees it.  A body is a sequence of tokens: a token  *)
(* is one byte of whitespace or punctuation, or the byte span of one JSON *)
(* object, whose first byte is "{" and whose members are its fields.      *)

Byte(c) == [b |-> c]
Object(fields) == [b |-> "{", fields |-> fields]

Has(o, f) == f \in DOMAIN o
Field(o, f, zero) == IF Has(o, f) THEN o[f] ELSE zero

SyntaxError == [type |-> "SyntaxError"]
UnmarshalTypeError == [type |-> "UnmarshalTypeError"]

RECURSIVE SkipSpace(_, _)
SkipSpace(toks, i) ==
  IF i <= Len(toks) /\ toks[i].b = " " THEN SkipSpace(toks, i + 1) ELSE i

\* The scanner and the value builder in one: the JSON value that starts at
\* toks[i], and the position after it.  A value is an object or an array of
\* values.
RECURSIVE ScanValue(_, _)
RECURSIVE ScanElements(_, _, _)
ScanValue(toks, i) ==
  LET j == SkipSpace(toks, i)
  IN  IF j > Len(toks) THEN [ok |-> FALSE]
      ELSE IF toks[j].b = "{"
        THEN [ok |-> TRUE, next |-> j + 1,
              val |-> [kind |-> "object", fields |-> toks[j].fields]]
      ELSE IF toks[j].b = "["
        THEN LET k == SkipSpace(toks, j + 1)
             IN  IF k <= Len(toks) /\ toks[k].b = "]"
                   THEN [ok |-> TRUE, next |-> k + 1,
                         val |-> [kind |-> "array", elems |-> <<>>]]
                   ELSE ScanElements(toks, k, <<>>)
      ELSE [ok |-> FALSE]

ScanElements(toks, i, acc) ==
  LET e == ScanValue(toks, i)
  IN  IF ~e.ok THEN [ok |-> FALSE]
      ELSE LET j == SkipSpace(toks, e.next)
           IN  IF j > Len(toks) THEN [ok |-> FALSE]
               ELSE IF toks[j].b = ","
                 THEN ScanElements(toks, j + 1, Append(acc, e.val))
               ELSE IF toks[j].b = "]"
                 THEN [ok |-> TRUE, next |-> j + 1,
                       val |-> [kind |-> "array", elems |-> Append(acc, e.val)]]
               ELSE [ok |-> FALSE]

\* checkValid: one value, then nothing but whitespace.
CheckValid(toks) ==
  LET t == ScanValue(toks, 1)
  IN  t.ok /\ SkipSpace(toks, t.next) > Len(toks)

-----------------------------------------------------------------------------
(* time.Parse("01/02/2006", s) and url.Parse(s).                          *)

ParseError == [type |-> "ParseError"]
URLError == [type |-> "url.Error", msg |-> "missing protocol scheme"]

DigitVal(c) == (CHOOSE k \in 1..10 : DigitChars[k] = c) - 1

RECURSIVE Atoi(_)
Atoi(s) == IF s = <<>> THEN 0 ELSE 10 * Atoi(SubSeq(s, 1, Len(s) - 1)) + DigitVal(s[Len(s)])

AllDigits(s) == \A k \in 1..Len(s) : IsDigit(s[k])

IsLeap(y) == y % 4 = 0 /\ (y % 100 # 0 \/ y % 400 = 0)

DaysIn(m, y) ==
  IF m = 2 THEN (IF IsLeap(y) THEN 29 ELSE 28)
  ELSE IF m \in {4, 6, 9, 11} THEN 30 ELSE 31

Date(y, m, d) == [Year |-> y, Month |-> m, Day |-> d]

\* The zero time.Time: January 1, year 1.
ZeroTime == Date(1, 1, 1)

TimeParse(s) ==
  IF /\ Len(s) = 10
     /\ AllDigits(SubSeq(s, 1, 2)) /\ s[3] = "/"
     /\ AllDigits(SubSeq(s, 4, 5)) /\ s[6] = "/"
     /\ AllDigits(SubSeq(s, 7, 10))
     /\ Atoi(SubSeq(s, 1, 2)) \in 1..12
     /\ Atoi(SubSeq(s, 4, 5)) \in
          1..DaysIn(Atoi(SubSeq(s, 1, 2)), Atoi(SubSeq(s, 7, 10)))
    THEN [t |-> Date(Atoi(SubSeq(s, 7, 10)), Atoi(SubSeq(s, 1, 2)),
                     Atoi(SubSeq(s, 4, 5))),
          err |-> NilErr]
    ELSE [t |-> ZeroTime, err |-> ParseError]

\* getScheme: the position of the ":" that ends a scheme, 0 when the string
\* has no scheme, -1 when the ":" comes first.
RECURSIVE SchemeEnd(_, _)
SchemeEnd(s, i) ==
  IF i > Len(s) THEN 0
  ELSE IF IsLower(s[i]) \/ IsUpper(s[i]) THEN SchemeEnd(s, i + 1)
  ELSE IF IsDigit(s[i]) \/ s[i] \in {"+", "-", "."}
    THEN (IF i = 1 THEN 0 ELSE SchemeEnd(s, i + 1))
  ELSE IF s[i] = ":" THEN (IF i = 1 THEN 0 - 1 ELSE i)
  ELSE 0

ToLower(c) == IF IsUpper(c) THEN Lower[CHOOSE k \in 1..26 : Upper[k] = c] ELSE c

\* The nil *url.URL.
NilLocator == [nil |-> TRUE, Scheme |-> <<>>, Rest |-> <<>>]

URLParse(s) ==
  LET e == SchemeEnd(s, 1)
  IN  IF e < 0 THEN [url |-> NilLocator, err |-> URLError]
      ELSE [url |-> [nil |-> FALSE,
                     Scheme |-> [k \in 1..(IF e = 0 THEN 0 ELSE e - 1) |-> ToLower(s[k])],
                     Rest |-> SubSeq(s, e + 1, Len(s))],
            err |-> NilErr]

-----------------------------------------------------------------------------
(* Response, CreditCard, Error and their decoding.                        *)

ZeroCreditCard == [Expiration |-> "", Number |-> "", Pin |-> 0, Security |-> 0]

ZeroResponse ==
  [Name |-> "", Surname |-> "", Gender |-> "", Region |-> "", Age |-> 0,
   Title |-> "", Phone |-> "", Birthdate |-> ZeroTime, Email |-> "",
   Password |-> "", CreditCard |-> ZeroCreditCard, Photo |-> NilLocator]

DecodeCreditCard(cc, o) ==
  [Expiration |-> Field(o, "expiration", cc.Expiration),
   Number     |-> Field(o, "number", cc.Number),
   Pin        |-> Field(o, "pin", cc.Pin),
   Security   |-> Field(o, "security", cc.Security)]

\* json.Unmarshal(data, &alias), the members that land in the embedded
\* Alias: a member that is absent leaves the field as it was.
DecodeAlias(resp, o) ==
  [Name       |-> Field(o, "name", resp.Name),
   Surname    |-> Field(o, "surname", resp.Surname),
   Gender     |-> Field(o, "gender", resp.Gender),
   Region     |-> Field(o, "region", resp.Region),
   Age        |-> Field(o, "age", resp.Age),
   Title      |-> Field(o, "title", resp.Title),
   Phone      |-> Field(o, "phone", resp.Phone),
   Birthdate  |-> resp.Birthdate,
   Email      |-> Field(o, "email", resp.Email),
   Password   |-> Field(o, "password", resp.Password),
   CreditCard |-> IF Has(o, "credit_card")
                    THEN DecodeCreditCard(resp.CreditCard, o["credit_card"])
                    ELSE resp.CreditCard,
   Photo      |-> resp.Photo]

\* alias.Birthdate.MDY and alias.Photo after json.Unmarshal(data, &alias).
AliasMDY(o) ==
  IF Has(o, "birthday") THEN Field(o["birthday"], "mdy", <<>>) ELSE <<>>
AliasPhoto(o) == Field(o, "photo", <<>>)

Decoded(resp, e) == [r |-> resp, err |-> e]

\* (*Response).UnmarshalJSON on the span of one JSON value.
UnmarshalJSON(resp, val) ==
  IF val.kind # "object" THEN Decoded(resp, UnmarshalTypeError)
  ELSE LET a   == DecodeAlias(resp, val.fields)
           dob == TimeParse(AliasMDY(val.fields))
           ph  == URLParse(AliasPhoto(val.fields))
       IN  IF dob.err # NilErr THEN Decoded(a, dob.err)
           ELSE IF ph.err # NilErr
             THEN Decoded([a EXCEPT !.Birthdate = dob.t], ph.err)
           ELSE Decoded([a EXCEPT !.Birthdate = dob.t, !.Photo = ph.url], NilErr)

\* The array decoder stopping after the first element.
DecodeElementsFirstOnly(acc, elems) ==
  IF elems = <<>> THEN [rl |-> acc, err |-> NilErr]
  ELSE LET d == UnmarshalJSON(ZeroResponse, Head(elems))
       IN  [rl |-> Append(acc, d.r), err |-> d.err]

\* The array decoder on a []Response: the slice grows by one element, the
\* element is decoded in place, and the first failing element ends the
\* decoding with the slice as it is.
RECURSIVE DecodeElements(_, _)
DecodeElements(acc, elems) ==
  IF elems = <<>> THEN [rl |-> acc, err |-> NilErr]
  ELSE LET d == UnmarshalJSON(ZeroResponse, Head(elems))
       IN  IF d.err # NilErr THEN [rl |-> Append(acc, d.r), err |-> d.err]
           ELSE DecodeElements(Append(acc, d.r), Tail(elems))

\* json.Unmarshal(body, &rl) for a body that opens an array.
UnmarshalList(list, toks) ==
  IF ~CheckValid(toks) THEN [rl |-> list, err |-> SyntaxError]
  ELSE LET val == ScanValue(toks, 1).val
       IN  IF val.kind = "array" THEN DecodeElements(<<>>, val.elems)
           ELSE [rl |-> list, err |-> UnmarshalTypeError]

\* json.Unmarshal(body, &ri).
UnmarshalItem(ri, toks) ==
  IF ~CheckValid(toks) THEN Decoded(ri, SyntaxError)
  ELSE UnmarshalJSON(ri, ScanValue(toks, 1).val)

\* The Error value: the status line, the status code and the message.
ServiceError(status, code, message) ==
  [type |-> "Error", Status |-> status, StatusCode |-> code, Message |-> message]

\* Error.Error() with the message alone.
ErrorStringMessageOnly(e) == e.Message

\* Error.Error().
ErrorString(e) == e.Status \o " - " \o e.Message

\* json.Unmarshal(data, &e): only the member "error" is a field of Error
\* that the decoder may write.
UnmarshalErrorBody(e, toks) ==
  IF ~CheckValid(toks) THEN [e |-> e, err |-> SyntaxError]
  ELSE LET val == ScanValue(toks, 1).val
       IN  IF val.kind = "object"
             THEN [e |-> [e EXCEPT !.Message = Field(val.fields, "error", @)],
                   err |-> NilErr]
             ELSE [e |-> e, err |-> UnmarshalTypeError]

-----------------------------------------------------------------------------
(* The inputs tried.                                                      *)

Germany == <<"G","e","r","m","a","n","y">>
OddRegion == <<"a"," ","&","=","b">>

\* The six options of TestNewRequest's "All opts" case.
AllOpts == <<Opt("Amount", 5), Opt("ExtraData", 0), Opt("Gender", Female),
             Opt("MaximumLength", 32), Opt("MinimumLength", 10),
             Opt("Region", Germany)>>

OptPool ==
  {AllOpts[k] : k \in 1..6} \cup
  {Opt("Amount", 7), Opt("Amount", 0), Opt("Amount", 501),
   Opt("Gender", Male), Opt("MaximumLength", 0 - 1), Opt("Region", OddRegion),
   Opt("errorOpt", 0)}

FreeOpts == UNION {[1..n -> OptPool] : n \in 0..MaxOpts}

\* The six options in every order.
Permuted ==
  {[k \in 1..6 |-> AllOpts[p[k]]] :
     p \in {q \in [1..6 -> 1..6] : \A a, b \in 1..6 : a # b => q[a] # q[b]}}

AmountProbes ==
  UNION {{<<Opt("Amount", n)>>,
          <<Opt("Region", Germany), Opt("Amount", 5), Opt("Amount", n)>>} :
         n \in (0 - ProbeBelow)..ProbeAbove}

OptInputs == FreeOpts \cup Permuted \cup AmountProbes

\* What the transport hands back: a response or a transport error.
NilBody == [nil |-> TRUE, data |-> <<>>, readErr |-> NilErr]
Reader(data) == [nil |-> FALSE, data |-> data, readErr |-> NilErr]
FailingReader ==
  [nil |-> FALSE, data |-> <<>>,
   readErr |-> ErrorsNew("I can't possibly work in this environment")]

StatusText(code) ==
  CASE code = 200 -> "OK"
    [] code = 400 -> "Bad Request"
    [] code = 404 -> "Not Found"

NoResponse == [kind |-> "none"]
HTTPResponse(code, b) ==
  [kind |-> "resp", StatusCode |-> code, Status |-> StatusText(code), Body |-> b]
TransportError == [kind |-> "error", err |-> ErrorsNew("connection refused")]

\* Objects the service may send.
FullFields ==
  [name |-> "Jan", surname |-> "Kowalski", gender |-> "male",
   region |-> "Poland", age |-> 30, title |-> "mr", phone |-> "(541) 754-3010",
   birthday |-> [dmy |-> <<"2","9","/","0","2","/","1","9","9","2">>,
                 mdy |-> <<"0","2","/","2","9","/","1","9","9","2">>,
                 raw |-> 699321600],
   email |-> "jan@example.com", password |-> "Kowalski92",
   credit_card |-> [expiration |-> "12/25", number |-> "4111-1111-1111-1111",
                    pin |-> 7310, security |-> 233],
   photo |-> <<"H","t","t","p",":","/","/","x",".","i","o","/","p">>]

BasicFields ==
  [name |-> "Ana", surname |-> "Silva", gender |-> "female", region |-> "Brazil"]

objFull  == Object(FullFields)
objBasic == Object(BasicFields)
objError == Object([error |-> "Region or language not found"])
objBadDate ==
  Object([FullFields EXCEPT
            !.birthday.mdy = <<"0","2","/","3","0","/","1","9","9","2">>])
objBadPhoto == Object([FullFields EXCEPT !.photo = <<":","/","/","x">>])
objNoError == Object([message |-> "down"])

TokenPool == {Byte(" "), Byte("["), Byte("]"), Byte(","), objFull, objBasic}

FreeBodies == UNION {[1..n -> TokenPool] : n \in 0..MaxBody}

PickedBodies ==
  {<<Byte("C")>>, <<objError>>, <<Byte(" "), objError, Byte(" ")>>,
   <<objNoError>>, <<Byte("["), objError, Byte("]")>>,
   <<objBadDate>>, <<objBadPhoto>>,
   <<Byte("["), objFull, Byte(","), objBadDate, Byte(","), objFull, Byte("]")>>,
   <<Byte("["), objFull, Byte(","), objBadPhoto, Byte("]")>>,
   <<Byte("["), objFull, Byte(","), objFull, Byte("]")>>,
   <<Byte("["), objBasic, Byte(","), objBasic, Byte("]")>>,
   <<Byte("["), objFull, Byte(","), objBasic, Byte("]")>>,
   <<Byte(" "), Byte(" "), Byte("["), objFull, Byte(","), objFull, Byte("]")>>}

BodyInputs == FreeBodies \cup PickedBodies

StatusCodes == {200, 400}

TransportInputs ==
  {TransportError}
  \cup {HTTPResponse(c, NilBody) : c \in StatusCodes}
  \cup {HTTPResponse(c, FailingReader) : c \in StatusCodes}
  \cup {HTTPResponse(c, Reader(b)) : c \in StatusCodes, b \in BodyInputs}
  \cup {HTTPResponse(404, Reader(<<objError>>))}

\* NewRequest as one function of its options: the descriptor and the error.
RECURSIVE CallAll(_, _)
CallAll(os, vals) ==
  IF os = <<>> THEN OptResult(vals, NilErr)
  ELSE LET res == CallOpt(Head(os), vals)
       IN  IF res.err # NilErr THEN res ELSE CallAll(Tail(os), res.v)

NewRequest(os) ==
  LET res == CallAll(os, EmptyValues)
  IN  IF res.err # NilErr THEN [req |-> NilRequest, err |-> res.err]
      ELSE [req |-> NewHTTPRequest("GET", URLString(Encode(res.v))),
            err |-> NilErr]

RequestInputs ==
  {NewRequest(<<>>).req, NewRequest(<<Opt("ExtraData", 0)>>).req}

-----------------------------------------------------------------------------
(* NewRequest.                                                            *)

GetIdle ==
  /\ r = NilRequest /\ rt = NoResponse /\ hr = NoResponse
  /\ body = <<>> /\ rl = <<>> /\ err = NilErr
  /\ closes = 0 /\ reads = 0 /\ lateRead = FALSE /\ decoded = 0
  /\ gpc = "idle"

Init ==
  /\ opts \in OptInputs
  /\ idx = 1
  /\ v = EmptyValues
  /\ invoked = 0
  /\ req = NilRequest
  /\ nrErr = NilErr
  /\ pc = "loop"
  /\ exchanges = 0
  /\ GetIdle

\* CallNext with the failing option passed over instead of returned.
CallNextSkipsFailure ==
  /\ pc = "loop"
  /\ idx <= Len(opts)
  /\ LET res == CallOpt(opts[idx], v)
     IN  /\ invoked' = invoked + 1
         /\ v' = res.v
         /\ idx' = idx + 1
         /\ UNCHANGED <<nrErr, req, pc>>
  /\ UNCHANGED <<opts, exchanges>>
  /\ UNCHANGED getVars

\* One turn of "for _, Opt := range opts": the option is called on &v and a
\* non-nil error is returned at once, with no request.
CallNext ==
  /\ pc = "loop"
  /\ idx <= Len(opts)
  /\ LET res == CallOpt(opts[idx], v)
     IN  /\ invoked' = invoked + 1
         /\ v' = res.v
         /\ IF res.err # NilErr
              THEN /\ nrErr' = res.err
                   /\ req' = NilRequest
                   /\ pc' = "done"
                   /\ idx' = idx
              ELSE /\ idx' = idx + 1
                   /\ UNCHANGED <<nrErr, req, pc>>
  /\ UNCHANGED <<opts, exchanges>>
  /\ UNCHANGED getVars

\* After the loop: the query is encoded and the GET request is made from
\* the URL's string.  http.NewRequest cannot fail here: the string is the
\* valid base URL with an escaped query.
Build ==
  /\ pc = "loop"
  /\ idx > Len(opts)
  /\ req' = NewHTTPRequest("GET", URLString(Encode(v)))
  /\ nrErr' = NilErr
  /\ pc' = "done"
  /\ UNCHANGED <<opts, idx, v, invoked, exchanges>>
  /\ UNCHANGED getVars

Next == CallNext \/ Build

Spec == Init /\ [][Next]_vars

-----------------------------------------------------------------------------
(* Request.get.                                                           *)

NewRequestIdle ==
  /\ opts = <<>> /\ idx = 1 /\ v = EmptyValues /\ invoked = 0
  /\ req = NilRequest /\ nrErr = NilErr /\ pc = "idle"

InitGet ==
  /\ NewRequestIdle
  /\ r \in RequestInputs
  /\ rt \in TransportInputs
  /\ hr = NoResponse
  /\ body = <<>>
  /\ rl = <<>>
  /\ err = NilErr
  /\ closes = 0 /\ reads = 0 /\ lateRead = FALSE /\ decoded = 0
  /\ exchanges = 0
  /\ gpc = "do"

\* rl := []Response{}; hr, err := (cl).Do(r.Request); a transport error is
\* returned with the empty rl.
Do ==
  /\ gpc = "do"
  /\ exchanges' = exchanges + 1
  /\ rl' = <<>>
  /\ IF rt.kind = "error"
       THEN /\ err' = rt.err
            /\ gpc' = "done"
            /\ hr' = hr
       ELSE /\ hr' = rt
            /\ gpc' = "resp"
            /\ err' = err
  /\ UNCHANGED <<r, rt, body, closes, reads, lateRead, decoded>>
  /\ UNCHANGED nrVars

\* BodyNil with the nil check made on the error path only: with status 200
\* the absent body is taken for an empty one.
BodyNilOnErrorPathOnly ==
  /\ gpc = "resp"
  /\ hr.Body.nil
  /\ body' = <<>>
  /\ IF hr.StatusCode # 200
       THEN err' = ErrorsNew(nilResponseBodyErrorMsg) /\ gpc' = "done"
       ELSE err' = NilErr /\ gpc' = "decode"
  /\ UNCHANGED <<r, rt, hr, rl, closes, reads, lateRead, decoded, exchanges>>
  /\ UNCHANGED nrVars

\* getResponseEntityBody with resp.Body == nil, called by get (status 200)
\* or by unmarshalError (any other status): the error goes back to get's
\* caller with rl.
BodyNil ==
  /\ gpc = "resp"
  /\ hr.Body.nil
  /\ body' = <<>>
  /\ err' = ErrorsNew(nilResponseBodyErrorMsg)
  /\ gpc' = "done"
  /\ UNCHANGED <<r, rt, hr, rl, closes, reads, lateRead, decoded, exchanges>>
  /\ UNCHANGED nrVars

\* defer resp.Body.Close(); data, err := ioutil.ReadAll(resp.Body).
ReadAll ==
  /\ gpc = "resp"
  /\ ~hr.Body.nil
  /\ reads' = reads + 1
  /\ lateRead' = (lateRead \/ closes > 0)
  /\ IF hr.Body.readErr # NilErr
       THEN body' = <<>> /\ err' = hr.Body.readErr
       ELSE body' = hr.Body.data /\ err' = NilErr
  /\ gpc' = "close"
  /\ UNCHANGED <<r, rt, hr, rl, closes, decoded, exchanges>>
  /\ UNCHANGED nrVars

\* Close called after a successful read only, not deferred.
CloseUnlessReadFailed ==
  /\ gpc = "close"
  /\ closes' = IF err # NilErr THEN closes ELSE closes + 1
  /\ gpc' = IF err # NilErr THEN "done" ELSE "decode"
  /\ UNCHANGED <<r, rt, hr, body, rl, err, reads, lateRead, decoded, exchanges>>
  /\ UNCHANGED nrVars

\* The deferred Close runs as getResponseEntityBody returns; a read error
\* then goes back to get's caller with rl.
Close ==
  /\ gpc = "close"
  /\ closes' = closes + 1
  /\ gpc' = IF err # NilErr THEN "done" ELSE "decode"
  /\ UNCHANGED <<r, rt, hr, body, rl, err, reads, lateRead, decoded, exchanges>>
  /\ UNCHANGED nrVars

\* unmarshalError after the body was read: e carries the status line and
\* code, the body is decoded into it, and e (or the decode error) is the
\* error of get.
DecodeError ==
  /\ gpc = "decode"
  /\ hr.StatusCode # 200
  /\ LET d == UnmarshalErrorBody(ServiceError(hr.Status, hr.StatusCode, ""), body)
     IN  err' = IF d.err # NilErr THEN d.err ELSE d.e
  /\ decoded' = decoded + 1
  /\ gpc' = "done"
  /\ UNCHANGED <<r, rt, hr, body, rl, closes, reads, lateRead, exchanges>>
  /\ UNCHANGED nrVars

\* if len(body) > 0 && body[0] == '[': err = json.Unmarshal(body, &rl);
\* return rl, err.
DecodeList ==
  /\ gpc = "decode"
  /\ hr.StatusCode = 200
  /\ Len(body) > 0 /\ body[1].b = "["
  /\ LET d == UnmarshalList(rl, body)
     IN  rl' = d.rl /\ err' = d.err
  /\ decoded' = decoded + 1
  /\ gpc' = "done"
  /\ UNCHANGED <<r, rt, hr, body, closes, reads, lateRead, exchanges>>
  /\ UNCHANGED nrVars

\* ri := Response{}; err = json.Unmarshal(body, &ri);
\* return append(rl, ri), err.
DecodeItem ==
  /\ gpc = "decode"
  /\ hr.StatusCode = 200
  /\ ~(Len(body) > 0 /\ body[1].b = "[")
  /\ LET d == UnmarshalItem(ZeroResponse, body)
     IN  rl' = Append(rl, d.r) /\ err' = d.err
  /\ decoded' = decoded + 1
  /\ gpc' = "done"
  /\ UNCHANGED <<r, rt, hr, body, closes, reads, lateRead, exchanges>>
  /\ UNCHANGED nrVars

NextGet ==
  Do \/ BodyNil \/ ReadAll \/ Close \/ DecodeError \/ DecodeList \/ DecodeItem

SpecGet == InitGet /\ [][NextGet]_vars

-----------------------------------------------------------------------------
(* Notions the properties are stated with.                                *)

\* The characters of s as one string.
RECURSIVE Str(_)
Str(s) == IF s = <<>> THEN "" ELSE Head(s) \o Str(Tail(s))

\* s is the decimal numeral of the natural number n.
IsDecimalOf(s, n) ==
  /\ Len(s) >= 1
  /\ AllDigits(s)
  /\ Len(s) > 1 => s[1] # "0"
  /\ Atoi(s) = n

IsIntOf(s, n) ==
  IF n < 0 THEN Len(s) >= 2 /\ s[1] = "-" /\ IsDecimalOf(Tail(s), 0 - n)
  ELSE IsDecimalOf(s, n)

Failing(o) ==
  o.name = "errorOpt" \/ (o.name = "Amount" /\ (o.arg < 1 \/ o.arg > 500))

SomeFailing(os) == \E k \in 1..Len(os) : Failing(os[k])

FirstFailing(os) ==
  CHOOSE k \in 1..Len(os) : Failing(os[k]) /\ \A j \in 1..(k - 1) : ~Failing(os[j])

KeyFor(o) ==
  CASE o.name = "Amount"        -> <<"a","m","o","u","n","t">>
    [] o.name = "ExtraData"     -> <<"e","x","t">>
    [] o.name = "Gender"        -> <<"g","e","n","d","e","r">>
    [] o.name = "MaximumLength" -> <<"m","a","x","l","e","n">>
    [] o.name = "MinimumLength" -> <<"m","i","n","l","e","n">>
    [] o.name = "Region"        -> <<"r","e","g","i","o","n">>

ValueMatches(o, s) ==
  CASE o.name \in {"Amount", "MaximumLength", "MinimumLength"} -> IsIntOf(s, o.arg)
    [] o.name = "ExtraData" -> s = <<>>
    [] o.name \in {"Gender", "Region"} -> s = o.arg

\* vals holds, for each key some option of os wrote, exactly the value of
\* the last option of os for that key, and nothing else.
LastWrites(vals, os) ==
  /\ DOMAIN vals = {KeyFor(os[j]) : j \in 1..Len(os)}
  /\ \A key \in DOMAIN vals :
       LET last == CHOOSE j \in 1..Len(os) :
                     /\ KeyFor(os[j]) = key
                     /\ \A m \in (j + 1)..Len(os) : KeyFor(os[m]) # key
       IN  Len(vals[key]) = 1 /\ ValueMatches(os[last], vals[key][1])

\* url.ParseQuery, for reading a query string back.
CharSet ==
  {Lower[k] : k \in 1..26} \cup {Upper[k] : k \in 1..26}
    \cup {DigitChars[k] : k \in 1..10}
    \cup {" ", "%", "&", "+", "-", ".", "/", ":", "=", "?", "_", "~"}

HexVal(c) == (CHOOSE k \in 1..16 : HexChars[k] = c) - 1

RECURSIVE Unescape(_)
Unescape(s) ==
  IF s = <<>> THEN <<>>
  ELSE IF s[1] = "+" THEN <<" ">> \o Unescape(Tail(s))
  ELSE IF s[1] = "%"
    THEN <<CHOOSE c \in CharSet : Ascii(c) = 16 * HexVal(s[2]) + HexVal(s[3])>>
           \o Unescape(SubSeq(s, 4, Len(s)))
  ELSE <<s[1]>> \o Unescape(Tail(s))

\* The position of the first sep in s, Len(s) + 1 when there is none.
FirstOf(s, sep) ==
  IF \E k \in 1..Len(s) : s[k] = sep
    THEN CHOOSE k \in 1..Len(s) : s[k] = sep /\ \A j \in 1..(k - 1) : s[j] # sep
    ELSE Len(s) + 1

RECURSIVE ParseQuery(_)
ParseQuery(q) ==
  IF q = <<>> THEN <<>>
  ELSE LET amp   == FirstOf(q, "&")
           piece == SubSeq(q, 1, amp - 1)
           eq    == FirstOf(piece, "=")
           rest  == ParseQuery(SubSeq(q, amp + 1, Len(q)))
       IN  IF piece = <<>> THEN rest
           ELSE <<[key |-> Unescape(SubSeq(piece, 1, eq - 1)),
                   val |-> Unescape(SubSeq(piece, eq + 1, Len(piece)))]>> \o rest

BaseEndpoint == "https://uinames.com/api/"

\* The query string of a URL string made of the base endpoint and a query.
QueryOf(u) == SubSeq(u, Len(URL) + 2, Len(u))

\* A body without its whitespace.
RECURSIVE NonSpace(_)
NonSpace(toks) ==
  IF toks = <<>> THEN <<>>
  ELSE IF Head(toks).b = " " THEN NonSpace(Tail(toks))
  ELSE <<Head(toks)>> \o NonSpace(Tail(toks))

\* toks, free of whitespace, is "[" obj "," obj ... "]" (or "[" "]").
IsArrayOfObjects(toks) ==
  /\ Len(toks) >= 2
  /\ toks[1].b = "[" /\ toks[Len(toks)].b = "]"
  /\ Len(toks) = 2 \/ Len(toks) % 2 = 1
  /\ \A k \in 2..(Len(toks) - 1) :
       IF k % 2 = 0 THEN toks[k].b = "{" ELSE toks[k].b = ","

ElementsOf(toks) ==
  [k \in 1..((Len(toks) - 1) \div 2) |-> toks[2 * k].fields]

\* The members of an identity on the wire (spec section 6), with a date and
\* a locator that parse.
WireKeys ==
  {"name", "surname", "gender", "region", "age", "title", "phone", "birthday",
   "email", "password", "credit_card", "photo"}
BasicKeys == {"name", "surname", "gender", "region"}

IsWireRecord(f) ==
  /\ DOMAIN f = WireKeys
  /\ TimeParse(f.birthday.mdy).err = NilErr
  /\ URLParse(f.photo).err = NilErr

IsBasicRecord(f) == DOMAIN f = BasicKeys

\* rec is the identity that the wire object f describes.
RecordOf(rec, f) ==
  /\ rec.Name = f.name /\ rec.Surname = f.surname
  /\ rec.Gender = f.gender /\ rec.Region = f.region
  /\ rec.Age = f.age /\ rec.Title = f.title /\ rec.Phone = f.phone
  /\ rec.Email = f.email /\ rec.Password = f.password
  /\ rec.CreditCard = [Expiration |-> f.credit_card.expiration,
                       Number |-> f.credit_card.number,
                       Pin |-> f.credit_card.pin,
                       Security |-> f.credit_card.security]
  /\ rec.Birthdate = [Year  |-> Atoi(SubSeq(f.birthday.mdy, 7, 10)),
                      Month |-> Atoi(SubSeq(f.birthday.mdy, 1, 2)),
                      Day   |-> Atoi(SubSeq(f.birthday.mdy, 4, 5))]
  /\ ~rec.Photo.nil
  /\ Len(rec.Photo.Scheme) + 1 + Len(rec.Photo.Rest) = Len(f.photo)
  /\ rec.Photo.Rest = SubSeq(f.photo, Len(rec.Photo.Scheme) + 2, Len(f.photo))

\* rec has the four basic fields of f and every other field empty.
BasicRecordOf(rec, f) ==
  /\ rec.Name = f.name /\ rec.Surname = f.surname
  /\ rec.Gender = f.gender /\ rec.Region = f.region
  /\ rec.Age = 0 /\ rec.Title = "" /\ rec.Phone = ""
  /\ rec.Email = "" /\ rec.Password = ""
  /\ rec.CreditCard = [Expiration |-> "", Number |-> "", Pin |-> 0, Security |-> 0]
  /\ rec.Birthdate = [Year |-> 1, Month |-> 1, Day |-> 1]
  /\ rec.Photo.Scheme = <<>> /\ rec.Photo.Rest = <<>>

\* The exchange gave a response whose body was read to the end.
Answered == rt.kind = "resp" /\ ~rt.Body.nil /\ rt.Body.readErr = NilErr
Sent == rt.Body.data

\* The request carries the ExtraData flag.
AsksExtraData(q) ==
  \E k \in 1..Len(ParseQuery(QueryOf(q.URL))) :
    ParseQuery(QueryOf(q.URL))[k].key = <<"e","x","t">>

-----------------------------------------------------------------------------
(* Properties of NewRequest (checked under Spec).                         *)

\* C1: calling Amount(n) with 1 <= n <= 500 succeeds and sets the key
\* "amount" to the decimal numeral of n, leaving the other keys alone;
\* calling it with n < 1 or n > 500 fails with the fixed message and leaves
\* the parameter set exactly as it was.
C1_AmountRange ==
  [][(pc = "loop" /\ idx <= Len(opts) /\ opts[idx].name = "Amount") =>
       LET n == opts[idx].arg
       IN  IF 1 <= n /\ n <= 500
             THEN /\ pc' = "loop" /\ nrErr' = NilErr
                  /\ DOMAIN v' = (DOMAIN v) \cup {<<"a","m","o","u","n","t">>}
                  /\ Len(v'[<<"a","m","o","u","n","t">>]) = 1
                  /\ IsDecimalOf(v'[<<"a","m","o","u","n","t">>][1], n)
                  /\ \A k \in (DOMAIN v) \ {<<"a","m","o","u","n","t">>} : v'[k] = v[k]
             ELSE /\ pc' = "done"
                  /\ nrErr' = [type |-> "errorString",
                               msg |-> "amount must be between 1 and 500 (inclusive)"]
                  /\ v' = v
                  /\ req' = NilRequest]_vars

\* C1 witness: Amount(5) was applied after Region("Germany"), then
\* Amount(501) failed and left both keys as they were.
C1_Witness ==
  /\ pc = "done"
  /\ opts = <<Opt("Region", Germany), Opt("Amount", 5), Opt("Amount", 501)>>
  /\ nrErr = ErrorsNew(amountErrorMsg)
  /\ v = [k \in {amountKey, regionKey} |->
            IF k = amountKey THEN <<(<<"5">>)>> ELSE <<Germany>>]

\* C2: when some option fails, NewRequest returns the error of the first
\* failing option and no descriptor, calls no option after it, keeps the
\* parameters written before it, and makes no network exchange.
C2_FirstFailureWins ==
  /\ exchanges = 0
  /\ SomeFailing(opts) => invoked <= FirstFailing(opts)
  /\ (pc = "done" /\ SomeFailing(opts)) =>
       LET k == FirstFailing(opts)
       IN  /\ nrErr = [type |-> "errorString",
                       msg |-> IF opts[k].name = "errorOpt"
                                 THEN "I can't work like this"
                                 ELSE "amount must be between 1 and 500 (inclusive)"]
           /\ req = NilRequest
           /\ invoked = k
           /\ LastWrites(v, SubSeq(opts, 1, k - 1))

\* C2 witness: the second of three options failed; the third was not
\* called.
C2_Witness ==
  /\ pc = "done"
  /\ Len(opts) = 3
  /\ opts[1].name = "Gender" /\ opts[2].name = "errorOpt"
  /\ opts[3].name = "Region"
  /\ invoked = 2
  /\ req = NilRequest
  /\ nrErr = ErrorsNew(errorOptMsg)

\* C3: when every option succeeds, the descriptor is a GET of the base
\* endpoint followed by the encoded parameters: read back, the query has
\* each written key once, in ascending order, with the value of the last
\* option for that key.  No options give the bare endpoint; the six options
\* of the test give the same query string in every order.
C3_CanonicalQuery ==
  (pc = "done" /\ ~SomeFailing(opts)) =>
    LET pairs == ParseQuery(QueryOf(req.URL))
    IN  /\ nrErr = NilErr
        /\ req.Method = "GET"
        /\ Len(req.URL) >= Len(URL)
        /\ Str(SubSeq(req.URL, 1, Len(URL))) = BaseEndpoint
        /\ Len(req.URL) > Len(URL) =>
             req.URL[Len(URL) + 1] = "?" /\ Len(req.URL) > Len(URL) + 1
        /\ \A k \in 1..(Len(pairs) - 1) : StrLess(pairs[k].key, pairs[k + 1].key)
        /\ LastWrites([key \in {pairs[k].key : k \in 1..Len(pairs)} |->
                         <<(CHOOSE p \in {pairs[k] : k \in 1..Len(pairs)} :
                              p.key = key).val>>],
                      opts)
        /\ opts = <<>> => Str(req.URL) = BaseEndpoint
        /\ opts \in Permuted =>
             Str(req.URL) = BaseEndpoint \o
               "?amount=5&ext=&gender=female&maxlen=32&minlen=10&region=Germany"

\* C3 witness: the six options given from Region down to Amount were built
\* into a descriptor.
C3_Witness ==
  /\ pc = "done"
  /\ opts = [k \in 1..6 |-> AllOpts[7 - k]]
  /\ nrErr = NilErr
  /\ req # NilRequest

-----------------------------------------------------------------------------
(* Properties of get (checked under SpecGet).                             *)

C5_ServiceError ==
  (gpc = "done" /\ Answered /\ rt.StatusCode # 200) =>
    LET toks == NonSpace(Sent)
    IN  /\ (Len(toks) = 1 /\ toks[1].b = "{" /\ Has(toks[1].fields, "error")) =>
              /\ rl = <<>>
              /\ err.type = "Error"
              /\ err.Status = rt.Status
              /\ err.StatusCode = rt.StatusCode
              /\ err.Message = toks[1].fields.error
              /\ ErrorString(err) = rt.Status \o " - " \o toks[1].fields.error
              /\ (rt.Status = "Bad Request"
                    /\ toks[1].fields.error = "Region or language not found") =>
                   ErrorString(err) = "Bad Request - Region or language not found"
        /\ ~CheckValid(Sent) => (rl = <<>> /\ err = SyntaxError)
        /\ (CheckValid(Sent) /\ toks[1].b = "[") =>
              (rl = <<>> /\ err = UnmarshalTypeError)

\* C5 witness: 400 with the error object of the service gave a Service
\* Error.
C5_Witness ==
  /\ gpc = "done" /\ Answered /\ rt.StatusCode = 400
  /\ Sent = <<objError>>
  /\ err = ServiceError("Bad Request", 400, "Region or language not found")

\* C6: a response without a body, whatever its status, fails with the fixed
\* message, and nothing is read or decoded.
C6_NilBody ==
  (gpc = "done" /\ rt.kind = "resp" /\ rt.Body.nil) =>
    /\ err = [type |-> "errorString", msg |-> "found nil HTTP response entity body"]
    /\ decoded = 0
    /\ reads = 0
    /\ rl = <<>>

\* C6 witness: status 200 without a body ended in the fixed error.
C6_Witness ==
  /\ gpc = "done" /\ rt.kind = "resp" /\ rt.Body.nil /\ rt.StatusCode = 200
  /\ err = ErrorsNew(nilResponseBodyErrorMsg)

\* C7: without ExtraData, a 200 answer whose records carry only name,
\* surname, gender and region makes get succeed with records that have those
\* four fields and every other field, the birthdate included, empty.
C7_BasicRecords ==
  (gpc = "done" /\ Answered /\ rt.StatusCode = 200 /\ ~AsksExtraData(r)
     /\ Sent # <<>>) =>
    LET toks == NonSpace(Sent)
    IN  /\ (Sent[1].b = "{" /\ Len(toks) = 1 /\ IsBasicRecord(toks[1].fields)) =>
              (err = NilErr /\ Len(rl) = 1 /\ BasicRecordOf(rl[1], toks[1].fields))
        /\ (/\ Sent[1].b = "["
            /\ IsArrayOfObjects(toks)
            /\ \A k \in 1..Len(ElementsOf(toks)) : IsBasicRecord(ElementsOf(toks)[k])) =>
              (/\ err = NilErr
               /\ Len(rl) = Len(ElementsOf(toks))
               /\ \A k \in 1..Len(rl) : BasicRecordOf(rl[k], ElementsOf(toks)[k]))

\* C8: status 200: a body of whitespace followed by a well-formed array of
\* records is decoded as the list of those records, as the body without the
\* whitespace is.
C8_LeadingSpace ==
  (gpc = "done" /\ Answered /\ rt.StatusCode = 200 /\ Sent # <<>>
     /\ Sent[1].b = " " /\ IsArrayOfObjects(NonSpace(Sent))
     /\ \A k \in 1..Len(ElementsOf(NonSpace(Sent))) :
          IsWireRecord(ElementsOf(NonSpace(Sent))[k])) =>
    /\ err = NilErr
    /\ Len(rl) = Len(ElementsOf(NonSpace(Sent)))
    /\ \A k \in 1..Len(rl) : RecordOf(rl[k], ElementsOf(NonSpace(Sent))[k])

\* C9: a body the transport returned is closed exactly once by the time get
\* returns, on every exit path, never more than once, and never read after
\* it was closed.
C9_ClosedOnce ==
  /\ closes <= 1
  /\ ~lateRead
  /\ closes = 1 => reads = 1
  /\ (gpc = "done" /\ rt.kind = "resp" /\ ~rt.Body.nil) => closes = 1
  /\ (gpc = "done" /\ (rt.kind # "resp" \/ rt.Body.nil)) => closes = 0

\* C9 witness: the read of the body failed and the body was closed.
C9_Witness ==
  /\ gpc = "done"
  /\ rt.kind = "resp" /\ ~rt.Body.nil /\ rt.Body.readErr # NilErr
  /\ err = rt.Body.readErr
  /\ closes = 1

\* C10: get returns records or an error, never both: whenever it returns an
\* error the sequence it returns is empty.
C10_RecordsOrError ==
  (gpc = "done" /\ err # NilErr) => rl = <<>>

=============================================================================
